---- MODULE Spec2Model ----
(***************************************************************************)
(* ArTypes: Vector, Quaternion and Matrix3x3 value types.                  *)
(*                                                                         *)
(* A C++ float is modelled as a record: a finite value is a binary         *)
(* fixed-point number with FracBits fractional bits (v = value * Scale),   *)
(* and the IEEE-754 specials +inf, -inf and NaN are kept apart, so that a  *)
(* division by zero or the square root of a negative number is visible in  *)
(* the result instead of being undefined.  Products, quotients and square  *)
(* roots round to the nearest representable value, sums are exact.         *)
(***************************************************************************)
EXTENDS Integers, Sequences, FiniteSets, TLC

\* ------------------------------------------------------------- bounds
\* Fractional bits of the fixed-point model of float.
FracBits == 8
\* Components of the enumerated quaternions and matrix diagonals are the
\* integers in [-MaxComp, MaxComp].
MaxComp == 1

Scale == 2 ^ FracBits

\* ------------------------------------------------------- float arithmetic
Fin(n) == [k |-> "fin", v |-> n]
PosInf == [k |-> "inf", v |-> 1]
NegInf == [k |-> "inf", v |-> -1]
NaN == [k |-> "nan", v |-> 0]

IsFinite(a) == a.k = "fin"
IsNaNValue(a) == a.k = "nan"

Sign(n) == IF n < 0 THEN -1 ELSE 1
Abs(n) == IF n < 0 THEN -n ELSE n

\* n / d rounded to the nearest integer, ties away from zero (d > 0).
RoundDiv(n, d) == Sign(n) * ((2 * Abs(n) + d) \div (2 * d))

\* The float literal num/den, e.g. 0.5f is Lit(1, 2).
Lit(num, den) == Fin(RoundDiv(num * Scale, den))

Zero == Fin(0)
One == Fin(Scale)
Two == Fin(2 * Scale)
Four == Fin(4 * Scale)
Half == Lit(1, 2)

NegF(a) == IF a.k = "nan" THEN NaN ELSE [k |-> a.k, v |-> -a.v]

AddF(a, b) ==
    CASE a.k = "nan" \/ b.k = "nan" -> NaN
      [] a.k = "fin" /\ b.k = "fin" -> Fin(a.v + b.v)
      [] a.k = "inf" /\ b.k = "fin" -> a
      [] a.k = "fin" /\ b.k = "inf" -> b
      [] OTHER -> IF a.v = b.v THEN a ELSE NaN

SubF(a, b) == AddF(a, NegF(b))

MulF(a, b) ==
    CASE a.k = "nan" \/ b.k = "nan" -> NaN
      [] a.k = "fin" /\ b.k = "fin" -> Fin(RoundDiv(a.v * b.v, Scale))
      [] a.k = "fin" /\ a.v = 0 -> NaN
      [] b.k = "fin" /\ b.v = 0 -> NaN
      [] OTHER -> [k |-> "inf", v |-> Sign(a.v) * Sign(b.v)]

DivF(a, b) ==
    CASE a.k = "nan" \/ b.k = "nan" -> NaN
      [] a.k = "fin" /\ b.k = "fin" ->
            IF b.v = 0
            THEN IF a.v = 0 THEN NaN ELSE [k |-> "inf", v |-> Sign(a.v)]
            ELSE Fin(Sign(b.v) * RoundDiv(a.v * Scale, Abs(b.v)))
      [] a.k = "fin" /\ b.k = "inf" -> Zero
      [] a.k = "inf" /\ b.k = "fin" -> [k |-> "inf", v |-> a.v * Sign(b.v)]
      [] OTHER -> NaN

\* Largest r in lo..hi with r * r <= n (lo * lo <= n assumed).
RECURSIVE ISqrtIn(_, _, _)
ISqrtIn(n, lo, hi) ==
    IF lo >= hi THEN lo
    ELSE LET mid == (lo + hi + 1) \div 2
         IN  IF mid * mid <= n THEN ISqrtIn(n, mid, hi)
             ELSE ISqrtIn(n, lo, mid - 1)

\* sqrt(n) rounded to the nearest integer (n >= 0).
ISqrt(n) ==
    LET r == ISqrtIn(n, 0, IF n > 46340 THEN 46340 ELSE n)
    IN  IF n - r * r > r THEN r + 1 ELSE r

\* sqrtf: NaN for a negative argument.
SqrtF(a) ==
    CASE a.k = "nan" -> NaN
      [] a.k = "inf" -> IF a.v > 0 THEN PosInf ELSE NaN
      [] OTHER -> IF a.v < 0 THEN NaN ELSE Fin(ISqrt(a.v * Scale))

\* Position of a non-NaN float on the extended real line.
Rank(a) == IF a.k = "inf" THEN a.v * (2 ^ 30) ELSE a.v

\* The comparisons of C++: every ordered comparison with NaN is false.
GtF(a, b) == a.k # "nan" /\ b.k # "nan" /\ Rank(a) > Rank(b)
EqF(a, b) == a.k # "nan" /\ b.k # "nan" /\ a = b


\* cosf and sinf by their Taylor polynomials, accurate on [-pi, pi] halves.
CosF(a) ==
    LET x2 == MulF(a, a)
        x4 == MulF(x2, x2)
        x6 == MulF(x4, x2)
        x8 == MulF(x4, x4)
    IN  AddF(SubF(AddF(SubF(One, DivF(x2, Two)), DivF(x4, Lit(24, 1))),
                  DivF(x6, Lit(720, 1))), DivF(x8, Lit(40320, 1)))

SinF(a) ==
    LET x2 == MulF(a, a)
        x3 == MulF(x2, a)
        x5 == MulF(x3, x2)
        x7 == MulF(x5, x2)
        x9 == MulF(x7, x2)
    IN  AddF(SubF(AddF(SubF(a, DivF(x3, Lit(6, 1))), DivF(x5, Lit(120, 1))),
                  DivF(x7, Lit(5040, 1))), DivF(x9, Lit(362880, 1)))

\* cst::sqr
sqr(f) == MulF(f, f)

\* ------------------------------------------------------------------ Vector
Vector(a, b, c) == [x |-> a, y |-> b, z |-> c]

cross(v, rhs) ==
    Vector(SubF(MulF(v.y, rhs.z), MulF(v.z, rhs.y)),
           SubF(MulF(v.z, rhs.x), MulF(v.x, rhs.z)),
           SubF(MulF(v.x, rhs.y), MulF(v.y, rhs.x)))

\* The dot product summing all three products.
dot_threeTerms(v, rhs) ==
    AddF(AddF(MulF(v.x, rhs.x), MulF(v.y, rhs.y)), MulF(v.z, rhs.z))

dot(v, rhs) == AddF(MulF(v.x, rhs.x), MulF(v.y, rhs.y))

\* Vector::operator*(float)
Vector_mulScalar(v, n) == Vector(MulF(v.x, n), MulF(v.y, n), MulF(v.z, n))

\* Vector::operator+(const Vector&)
Vector_add(v, rhs) ==
    Vector(AddF(v.x, rhs.x), AddF(v.y, rhs.y), AddF(v.z, rhs.z))

Vector_normSqr(v) == AddF(AddF(sqr(v.x), sqr(v.y)), sqr(v.z))

\* Vector::setNaN and Vector::setUndefined: the object after the call.
setNaN(v) == Vector(NaN, NaN, NaN)

setUndefined(v) == Vector(NaN, NaN, NaN)

Vector_isNaN(v) == EqF(v.x, NaN) \/ EqF(v.y, NaN) \/ EqF(v.z, NaN)

\* Vector::operator+(float)
Vector_addScalar(v, f) == Vector(AddF(v.x, f), AddF(v.y, f), AddF(v.z, f))

\* Vector::operator-(float)
Vector_subScalar(v, f) == Vector(SubF(v.x, f), SubF(v.y, f), SubF(v.z, f))

\* The free operators with the scalar on the left: f * v, f + v, f - v.
scalar_mulVector(f, v) == Vector_mulScalar(v, f)

scalar_addVector(f, v) == Vector_addScalar(v, f)

scalar_subVector(f, v) == Vector_subScalar(v, f)

\* --------------------------------------------------------------- Matrix3x3
MATRIX_ROWS == 3
MATRIX_COLS == 3
MATRIX_LEN == MATRIX_ROWS * MATRIX_COLS

\* The flat row-major buffer members[0..8].
Matrix3x3(b11, b12, b13, b21, b22, b23, b31, b32, b33) ==
    [n \in 0 .. (MATRIX_LEN - 1) |->
        <<b11, b12, b13, b21, b22, b23, b31, b32, b33>>[n + 1]]

index(r, c) == MATRIX_COLS * r + c

coeff(mat, r, c) == mat[index(r, c)]

identity == Matrix3x3(One, Zero, Zero, Zero, One, Zero, Zero, Zero, One)

\* trace() losing its last term.
trace_twoTerms(mat) == AddF(coeff(mat, 0, 0), coeff(mat, 1, 1))

trace(mat) == AddF(AddF(coeff(mat, 0, 0), coeff(mat, 1, 1)), coeff(mat, 2, 2))

\* Matrix3x3::reset(lst): the members after the call, lst a 9-tuple.
reset(mat, lst) == [n \in 0 .. (MATRIX_LEN - 1) |-> lst[n + 1]]

col(mat, idx) ==
    Vector(mat[index(0, idx)], mat[index(1, idx)], mat[index(2, idx)])

row(mat, idx) ==
    Vector(mat[index(idx, 0)], mat[index(idx, 1)], mat[index(idx, 2)])

\* fromVectors laying the vectors out as rows whatever the flag.
fromVectors_alwaysRows(mat, vx, vy, vz, asRows) ==
    reset(mat, <<vx.x, vx.y, vx.z, vy.x, vy.y, vy.z, vz.x, vz.y, vz.z>>)

\* Matrix3x3::fromVectors(vx, vy, vz, row): the members after the call.
fromVectors(mat, vx, vy, vz, asRows) ==
    IF asRows
    THEN reset(mat, <<vx.x, vx.y, vx.z, vy.x, vy.y, vy.z, vz.x, vz.y, vz.z>>)
    ELSE reset(mat, <<vx.x, vy.x, vz.x, vx.y, vy.y, vz.y, vx.z, vy.z, vz.z>>)

\* Matrix3x3::det
det(mat) ==
    AddF(AddF(
        MulF(coeff(mat, 0, 0),
             SubF(MulF(coeff(mat, 1, 1), coeff(mat, 2, 2)),
                  MulF(coeff(mat, 1, 2), coeff(mat, 2, 1)))),
        MulF(coeff(mat, 0, 1),
             SubF(MulF(coeff(mat, 1, 2), coeff(mat, 2, 0)),
                  MulF(coeff(mat, 1, 0), coeff(mat, 2, 2))))),
        MulF(coeff(mat, 0, 2),
             SubF(MulF(coeff(mat, 1, 0), coeff(mat, 2, 1)),
                  MulF(coeff(mat, 1, 1), coeff(mat, 2, 0)))))

\* Matrix3x3::operator*(const Vector&)
Matrix3x3_mulVector(mat, rhs) ==
    Vector(
        AddF(AddF(MulF(coeff(mat, 0, 0), rhs.x), MulF(coeff(mat, 0, 1), rhs.y)),
             MulF(coeff(mat, 0, 2), rhs.z)),
        AddF(AddF(MulF(coeff(mat, 1, 0), rhs.x), MulF(coeff(mat, 1, 1), rhs.y)),
             MulF(coeff(mat, 1, 2), rhs.z)),
        AddF(AddF(MulF(coeff(mat, 2, 0), rhs.x), MulF(coeff(mat, 2, 1), rhs.y)),
             MulF(coeff(mat, 2, 2), rhs.z)))

\* -------------------------------------------------------------- Quaternion
Quaternion(a, b, c, d) == [w |-> a, x |-> b, y |-> c, z |-> d]

\* Quaternion(): the default arguments of the constructor.
QuaternionDefault == Quaternion(One, Zero, Zero, Zero)

Quaternion_normSqr(q) ==
    AddF(AddF(AddF(sqr(q.w), sqr(q.x)), sqr(q.y)), sqr(q.z))

Quaternion_norm(q) == SqrtF(Quaternion_normSqr(q))

\* Quaternion::operator/(float)
Quaternion_div(q, n) ==
    Quaternion(DivF(q.w, n), DivF(q.x, n), DivF(q.y, n), DivF(q.z, n))

Quaternion_normalised(q) == Quaternion_div(q, Quaternion_norm(q))

\* conjugate() leaving z as it is.
conjugate_keepsZ(q) == Quaternion(q.w, NegF(q.x), NegF(q.y), q.z)

conjugate(q) == Quaternion(q.w, NegF(q.x), NegF(q.y), NegF(q.z))

axis(q) == Vector(q.x, q.y, q.z)

\* The product with the sign of one cross term of x flipped.
Quaternion_mul_signSlipX(q, rhs) ==
    Quaternion(
        SubF(SubF(SubF(MulF(rhs.w, q.w), MulF(rhs.x, q.x)), MulF(rhs.y, q.y)),
             MulF(rhs.z, q.z)),
        AddF(AddF(AddF(MulF(rhs.w, q.x), MulF(rhs.x, q.w)), MulF(rhs.y, q.z)),
             MulF(rhs.z, q.y)),
        SubF(AddF(AddF(MulF(rhs.w, q.y), MulF(rhs.x, q.z)), MulF(rhs.y, q.w)),
             MulF(rhs.z, q.x)),
        AddF(AddF(SubF(MulF(rhs.w, q.z), MulF(rhs.x, q.y)), MulF(rhs.y, q.x)),
             MulF(rhs.z, q.w)))

\* The product with the scalar part losing its z term, as if taken from
\* Vector::dot.
Quaternion_mul_dotScalar(q, rhs) ==
    Quaternion(
        SubF(SubF(MulF(rhs.w, q.w), MulF(rhs.x, q.x)), MulF(rhs.y, q.y)),
        AddF(SubF(AddF(MulF(rhs.w, q.x), MulF(rhs.x, q.w)), MulF(rhs.y, q.z)),
             MulF(rhs.z, q.y)),
        SubF(AddF(AddF(MulF(rhs.w, q.y), MulF(rhs.x, q.z)), MulF(rhs.y, q.w)),
             MulF(rhs.z, q.x)),
        AddF(AddF(SubF(MulF(rhs.w, q.z), MulF(rhs.x, q.y)), MulF(rhs.y, q.x)),
             MulF(rhs.z, q.w)))

\* Quaternion::operator*(const Quaternion&), q the left operand (*this).
Quaternion_mul(q, rhs) ==
    Quaternion(
        SubF(SubF(SubF(MulF(rhs.w, q.w), MulF(rhs.x, q.x)), MulF(rhs.y, q.y)),
             MulF(rhs.z, q.z)),
        AddF(SubF(AddF(MulF(rhs.w, q.x), MulF(rhs.x, q.w)), MulF(rhs.y, q.z)),
             MulF(rhs.z, q.y)),
        SubF(AddF(AddF(MulF(rhs.w, q.y), MulF(rhs.x, q.z)), MulF(rhs.y, q.w)),
             MulF(rhs.z, q.x)),
        AddF(AddF(SubF(MulF(rhs.w, q.z), MulF(rhs.x, q.y)), MulF(rhs.y, q.x)),
             MulF(rhs.z, q.w)))

\* Vector::operator*(const Quaternion&), v the left operand (*this).
Vector_mulQuaternion(v, rhs) ==
    Quaternion(
        SubF(SubF(MulF(NegF(v.x), rhs.x), MulF(v.y, rhs.y)), MulF(v.z, rhs.z)),
        AddF(SubF(MulF(v.x, rhs.w), MulF(v.y, rhs.z)), MulF(v.z, rhs.y)),
        SubF(AddF(MulF(v.x, rhs.z), MulF(v.y, rhs.w)), MulF(v.z, rhs.x)),
        AddF(AddF(MulF(NegF(v.x), rhs.y), MulF(v.y, rhs.x)), MulF(v.z, rhs.w)))

\* The product with a vector, the sign of its first cross term flipped.
Quaternion_mulVector_signSlip(q, rhs) ==
    Quaternion(
        SubF(SubF(MulF(NegF(rhs.x), q.x), MulF(rhs.y, q.y)), MulF(rhs.z, q.z)),
        AddF(AddF(MulF(rhs.x, q.w), MulF(rhs.y, q.z)), MulF(rhs.z, q.y)),
        SubF(AddF(MulF(rhs.x, q.z), MulF(rhs.y, q.w)), MulF(rhs.z, q.x)),
        AddF(AddF(MulF(NegF(rhs.x), q.y), MulF(rhs.y, q.x)), MulF(rhs.z, q.w)))

\* Quaternion::operator*(const Vector&), q the left operand (*this).
Quaternion_mulVector(q, rhs) ==
    Quaternion(
        SubF(SubF(MulF(NegF(rhs.x), q.x), MulF(rhs.y, q.y)), MulF(rhs.z, q.z)),
        AddF(SubF(MulF(rhs.x, q.w), MulF(rhs.y, q.z)), MulF(rhs.z, q.y)),
        SubF(AddF(MulF(rhs.x, q.z), MulF(rhs.y, q.w)), MulF(rhs.z, q.x)),
        AddF(AddF(MulF(NegF(rhs.x), q.y), MulF(rhs.y, q.x)), MulF(rhs.z, q.w)))

fromAngles(roll, pitch, yaw) ==
    LET halfR == DivF(roll, Two)
        halfP == DivF(pitch, Two)
        halfY == DivF(yaw, Two)
        cosR == CosF(halfR)
        cosP == CosF(halfP)
        cosY == CosF(halfY)
        sinR == SinF(halfR)
        sinP == SinF(halfP)
        sinY == SinF(halfY)
    IN  Quaternion(
            AddF(MulF(MulF(cosR, cosP), cosY), MulF(MulF(sinR, sinP), sinY)),
            SubF(MulF(MulF(sinR, cosP), cosY), MulF(MulF(cosR, sinP), sinY)),
            AddF(MulF(MulF(cosR, sinP), cosY), MulF(MulF(sinR, cosP), sinY)),
            SubF(MulF(MulF(cosR, cosP), sinY), MulF(MulF(sinR, sinP), cosY)))

toRotationMatrix(q) ==
    LET twx == MulF(q.x, q.w)
        twy == MulF(q.y, q.w)
        twz == MulF(q.z, q.w)
        txx == sqr(q.x)
        txy == MulF(q.y, q.x)
        txz == MulF(q.z, q.x)
        tyy == sqr(q.y)
        tyz == MulF(q.z, q.y)
        tzz == sqr(q.z)
        a00 == SubF(One, AddF(tyy, tzz))
        a01 == SubF(txy, twz)
        a02 == AddF(txz, twy)
        a10 == AddF(txy, twz)
        a11 == SubF(One, AddF(txx, tzz))
        a12 == SubF(tyz, twx)
        a20 == SubF(txz, twy)
        a21 == AddF(tyz, twx)
        a22 == SubF(One, AddF(txx, tyy))
    IN  Matrix3x3(a00, a01, a02, a10, a11, a12, a20, a21, a22)

\* Quaternion::set(idx, value): 0, 1, 2, 3 are w, x, y, z; others ignored.
set(q, idx, value) ==
    CASE idx = 0 -> [q EXCEPT !.w = value]
      [] idx = 1 -> [q EXCEPT !.x = value]
      [] idx = 2 -> [q EXCEPT !.y = value]
      [] idx = 3 -> [q EXCEPT !.z = value]
      [] OTHER -> q

\* The selection with both comparisons turned round: the smallest entry.
selectDiagonal_smallest(mat) ==
    LET i0 == IF GtF(coeff(mat, 0, 0), coeff(mat, 1, 1)) THEN 1 ELSE 0
    IN  IF GtF(coeff(mat, i0, i0), coeff(mat, 2, 2)) THEN 2 ELSE i0

\* The diagonal index fromMatrix selects when trace <= 0.
selectDiagonal(mat) ==
    LET i0 == IF GtF(coeff(mat, 1, 1), coeff(mat, 0, 0)) THEN 1 ELSE 0
    IN  IF GtF(coeff(mat, 2, 2), coeff(mat, i0, i0)) THEN 2 ELSE i0

\* Quaternion::fromMatrix on the object q, with the locals it computes on the
\* way: the branch taken, the index i, the argument of sqrtf and the value t
\* that 0.5f is divided by.
fromMatrixRun(q, mat) ==
    LET t0 == trace(mat)
    IN  IF GtF(t0, Zero)
        THEN LET radicand == AddF(t0, One)
                 t1 == SqrtF(radicand)
                 t2 == DivF(Half, t1)
             IN  [q |-> Quaternion(
                            MulF(Half, t1),
                            MulF(SubF(coeff(mat, 2, 1), coeff(mat, 1, 2)), t2),
                            MulF(SubF(coeff(mat, 0, 2), coeff(mat, 2, 0)), t2),
                            MulF(SubF(coeff(mat, 1, 0), coeff(mat, 0, 1)), t2)),
                  branch |-> "trace", i |-> 0, j |-> 0, k |-> 0,
                  radicand |-> radicand, t |-> t1]
        ELSE LET i == selectDiagonal(mat)
                 j == (i + 1) % 3
                 k == (j + 1) % 3
                 radicand ==
                     AddF(SubF(SubF(coeff(mat, i, i), coeff(mat, j, j)),
                               coeff(mat, k, k)), One)
                 t1 == SqrtF(radicand)
                 qi == set(q, i, MulF(Half, t1))
                 t2 == DivF(Half, t1)
                 qw == [qi EXCEPT
                          !.w = MulF(SubF(coeff(mat, k, j), coeff(mat, j, k)), t2)]
                 qj == set(qw, j,
                           MulF(AddF(coeff(mat, j, i), coeff(mat, i, j)), t2))
                 qk == set(qj, k,
                           MulF(AddF(coeff(mat, k, i), coeff(mat, i, k)), t2))
             IN  [q |-> qk, branch |-> "diag", i |-> i, j |-> j, k |-> k,
                  radicand |-> radicand, t |-> t1]

fromMatrix(q, mat) == fromMatrixRun(q, mat).q

toQuaternion(mat) ==
    LET w == MulF(Half, SqrtF(AddF(One, trace(mat))))
        w4 == MulF(w, Four)
        x == DivF(SubF(coeff(mat, 1, 2), coeff(mat, 2, 1)), w4)
        y == DivF(SubF(coeff(mat, 2, 0), coeff(mat, 0, 2)), w4)
        z == DivF(SubF(coeff(mat, 0, 1), coeff(mat, 1, 0)), w4)
    IN  Quaternion_normalised(Quaternion(w, x, y, z))


\* Matrix3x3(): every member defaults to 0.
Matrix3x3Default ==
    Matrix3x3(Zero, Zero, Zero, Zero, Zero, Zero, Zero, Zero, Zero)

\* Vector(): every component defaults to 0.
VectorDefault == Vector(Zero, Zero, Zero)

\* ------------------------------------------------------------ input sets
Comp == {Fin(n * Scale) : n \in (-MaxComp) .. MaxComp}

QSet == {Quaternion(a, b, c, d) : a, b, c, d \in Comp}

MinusOne == NegF(One)
MinusHalf == NegF(Half)

\* Right-hand operands of the products: the basis 1, i, j, k and two
\* quaternions with no zero component.
QGen ==
    { Quaternion(One, Zero, Zero, Zero), Quaternion(Zero, One, Zero, Zero),
      Quaternion(Zero, Zero, One, Zero), Quaternion(Zero, Zero, Zero, One),
      Quaternion(Half, Half, Half, Half),
      Quaternion(Half, MinusOne, One, MinusHalf) }

\* Quaternions whose components are all +-1/2.
QHalf == {Quaternion(a, b, c, d) : a, b, c, d \in {Half, MinusHalf}}

\* The enumerated quaternions of norm 1.
UnitQSet == {q \in QSet \cup QHalf : Quaternion_normSqr(q) = One}

\* The objects fromMatrix is called on: a fresh quaternion and one whose
\* components all differ.
PriorSet == {QuaternionDefault, Quaternion(Half, MinusOne, One, MinusHalf)}

\* Off-diagonal entries <<a01, a02, a10, a12, a20, a21>>: none, the quarter
\* turns about z, x and y, the third of a turn about (1,1,1), the half turn
\* about (1,1,0), and six entries that all differ.
OffDiag ==
    { <<Zero, Zero, Zero, Zero, Zero, Zero>>,
      <<MinusOne, Zero, One, Zero, Zero, Zero>>,
      <<Zero, Zero, Zero, MinusOne, Zero, One>>,
      <<Zero, One, Zero, Zero, MinusOne, Zero>>,
      <<Zero, One, One, Zero, Zero, One>>,
      <<One, Zero, One, Zero, Zero, Zero>>,
      <<Half, MinusOne, One, MinusHalf, Two, Four>> }

MSet ==
    {Matrix3x3(d0, o[1], o[2], o[3], d1, o[4], o[5], o[6], d2) :
        d0 \in Comp, d1 \in Comp, d2 \in Comp, o \in OffDiag}

Pi == Lit(355, 113)
HalfPi == DivF(Pi, Two)
AngleSet == {Zero, HalfPi, NegF(HalfPi), Pi}

VSet ==
    { Vector(One, Zero, Zero), Vector(Zero, One, Zero), Vector(Zero, Zero, One),
      Vector(Half, MinusOne, One) }

\* The smallest positive float of the model.
Epsilon == Fin(1)

\* Operands of dot: the vectors with components in Comp and three whose z
\* is the smallest float, positive or negative.
VDotSet ==
    {Vector(a, b, c) : a, b, c \in Comp}
        \cup { Vector(One, Zero, Epsilon), Vector(Zero, Zero, NegF(Epsilon)),
               Vector(Half, MinusOne, Epsilon) }

\* Vectors tested by isNaN: finite ones, ones with NaN in one or in every
\* component, and one with an infinite component.
VNaNSet ==
    VSet \cup { Vector(NaN, Zero, One), Vector(One, NaN, Zero),
                Vector(Zero, One, NaN), Vector(NaN, NaN, NaN),
                Vector(PosInf, Zero, MinusOne), VectorDefault }

\* Scalars of the free operators.
FSet == Comp \cup {Half, Two}

\* The matrices fromVectors is called on.
MPriorSet == {Matrix3x3Default, identity}

\* ------------------------------------------------------------------ state
VARIABLES
    op,      \* the call made: "init" before any
    this,    \* the quaternion the method is called on, as it was before the call
    rhs,     \* the quaternion argument
    third,   \* the third quaternion of a chained product
    mat,     \* the matrix argument
    vec,     \* the vector argument
    angles,  \* the roll, pitch, yaw arguments
    qret,    \* the quaternion returned, or *this after a mutating call
    qalt,    \* the quaternion of the other grouping of a chained product
    mret,    \* the matrix returned
    vret,    \* the vector returned
    run,     \* the locals of fromMatrix
    vec2,    \* the second vector argument
    vec3,    \* the third vector argument
    scalar,  \* the float argument
    flag,    \* the bool argument
    mthis,   \* the matrix the method is called on, as it was before the call
    fret,    \* the float returned
    bret     \* the bool returned

\* The registers of the vector and matrix calls.
extra == <<vec2, vec3, scalar, flag, mthis, fret, bret>>

vars ==
    <<op, this, rhs, third, mat, vec, angles, qret, qalt, mret, vret, run,
      vec2, vec3, scalar, flag, mthis, fret, bret>>

NoRun ==
    [branch |-> "none", i |-> 0, j |-> 0, k |-> 0, radicand |-> Zero, t |-> Zero]

Init ==
    /\ op = "init"
    /\ this = QuaternionDefault
    /\ rhs = QuaternionDefault
    /\ third = QuaternionDefault
    /\ mat = Matrix3x3Default
    /\ vec = VectorDefault
    /\ angles = [roll |-> Zero, pitch |-> Zero, yaw |-> Zero]
    /\ qret = QuaternionDefault
    /\ qalt = QuaternionDefault
    /\ mret = Matrix3x3Default
    /\ vret = VectorDefault
    /\ run = NoRun
    /\ vec2 = VectorDefault
    /\ vec3 = VectorDefault
    /\ scalar = Zero
    /\ flag = FALSE
    /\ mthis = Matrix3x3Default
    /\ fret = Zero
    /\ bret = FALSE

\* q1 * q2
Multiply ==
    /\ op = "init"
    /\ \E a \in QSet, b \in QGen :
        /\ this' = a
        /\ rhs' = b
        /\ qret' = Quaternion_mul(a, b)
    /\ op' = "mul"
    /\ UNCHANGED <<third, mat, vec, angles, qalt, mret, vret, run>>
    /\ UNCHANGED extra

\* (q1 * q2) * q3 and q1 * (q2 * q3)
MultiplyChain ==
    /\ op = "init"
    /\ \E a \in QSet, b \in QGen, c \in QGen :
        /\ this' = a
        /\ rhs' = b
        /\ third' = c
        /\ qret' = Quaternion_mul(Quaternion_mul(a, b), c)
        /\ qalt' = Quaternion_mul(a, Quaternion_mul(b, c))
    /\ op' = "mulChain"
    /\ UNCHANGED <<mat, vec, angles, mret, vret, run>>
    /\ UNCHANGED extra

\* q * q.conjugate()
MultiplyConjugate ==
    /\ op = "init"
    /\ \E a \in QSet \cup QHalf :
        /\ this' = a
        /\ rhs' = conjugate(a)
        /\ qret' = Quaternion_mul(a, conjugate(a))
    /\ op' = "mulConjugate"
    /\ UNCHANGED <<third, mat, vec, angles, qalt, mret, vret, run>>
    /\ UNCHANGED extra

\* q.toRotationMatrix()
ToRotationMatrix ==
    /\ op = "init"
    /\ \E a \in QSet :
        /\ this' = a
        /\ mret' = toRotationMatrix(a)
    /\ op' = "toRotationMatrix"
    /\ UNCHANGED <<rhs, third, mat, vec, angles, qret, qalt, vret, run>>
    /\ UNCHANGED extra

\* q.fromMatrix(m)
FromMatrix ==
    /\ op = "init"
    /\ \E a \in PriorSet, m \in MSet :
        /\ this' = a
        /\ mat' = m
        /\ run' = [x \in DOMAIN NoRun |-> fromMatrixRun(a, m)[x]]
        /\ qret' = fromMatrix(a, m)
    /\ op' = "fromMatrix"
    /\ UNCHANGED <<rhs, third, vec, angles, qalt, mret, vret>>
    /\ UNCHANGED extra

\* p.fromMatrix(q.toRotationMatrix())
RoundTrip ==
    /\ op = "init"
    /\ \E a \in PriorSet, q \in UnitQSet :
        /\ this' = a
        /\ rhs' = q
        /\ mret' = toRotationMatrix(q)
        /\ run' = [x \in DOMAIN NoRun |-> fromMatrixRun(a, toRotationMatrix(q))[x]]
        /\ qret' = fromMatrix(a, toRotationMatrix(q))
    /\ op' = "roundTrip"
    /\ UNCHANGED <<third, mat, vec, angles, qalt, vret>>
    /\ UNCHANGED extra

\* m.toQuaternion()
ToQuaternion ==
    /\ op = "init"
    /\ \E m \in MSet :
        /\ mat' = m
        /\ qret' = toQuaternion(m)
    /\ op' = "toQuaternion"
    /\ UNCHANGED <<this, rhs, third, vec, angles, qalt, mret, vret, run>>
    /\ UNCHANGED extra

\* Quaternion::fromAngles(roll, pitch, yaw)
FromAngles ==
    /\ op = "init"
    /\ \E r \in AngleSet, p \in AngleSet, y \in AngleSet :
        /\ angles' = [roll |-> r, pitch |-> p, yaw |-> y]
        /\ qret' = fromAngles(r, p, y)
    /\ op' = "fromAngles"
    /\ UNCHANGED <<this, rhs, third, mat, vec, qalt, mret, vret, run>>
    /\ UNCHANGED extra

\* Quaternion::fromAngles(roll, pitch, yaw).toRotationMatrix() * v
Rotate ==
    /\ op = "init"
    /\ \E r \in AngleSet, p \in AngleSet, y \in AngleSet, v \in VSet :
        /\ angles' = [roll |-> r, pitch |-> p, yaw |-> y]
        /\ vec' = v
        /\ qret' = fromAngles(r, p, y)
        /\ mret' = toRotationMatrix(fromAngles(r, p, y))
        /\ vret' = Matrix3x3_mulVector(toRotationMatrix(fromAngles(r, p, y)), v)
    /\ op' = "rotate"
    /\ UNCHANGED <<this, rhs, third, mat, qalt, run>>
    /\ UNCHANGED extra

\* q * v
MultiplyVector ==
    /\ op = "init"
    /\ \E a \in QSet, v \in VSet :
        /\ this' = a
        /\ vec' = v
        /\ qret' = Quaternion_mulVector(a, v)
    /\ op' = "mulVector"
    /\ UNCHANGED <<rhs, third, mat, angles, qalt, mret, vret, run>>
    /\ UNCHANGED extra

\* v * q
VectorMultiply ==
    /\ op = "init"
    /\ \E v \in VSet, q \in QSet :
        /\ vec' = v
        /\ rhs' = q
        /\ qret' = Vector_mulQuaternion(v, q)
    /\ op' = "vectorMul"
    /\ UNCHANGED <<this, third, mat, angles, qalt, mret, vret, run>>
    /\ UNCHANGED extra

\* v.isNaN()
IsNaN ==
    /\ op = "init"
    /\ \E v \in VNaNSet :
        /\ vec' = v
        /\ vret' = v
        /\ bret' = Vector_isNaN(v)
    /\ op' = "isNaN"
    /\ UNCHANGED <<this, rhs, third, mat, angles, qret, qalt, mret, run>>
    /\ UNCHANGED <<vec2, vec3, scalar, flag, mthis, fret>>

\* v.setNaN(); v.isNaN()
SetNaN ==
    /\ op = "init"
    /\ \E v \in VSet :
        /\ vec' = v
        /\ vret' = setNaN(v)
        /\ bret' = Vector_isNaN(setNaN(v))
    /\ op' = "setNaN"
    /\ UNCHANGED <<this, rhs, third, mat, angles, qret, qalt, mret, run>>
    /\ UNCHANGED <<vec2, vec3, scalar, flag, mthis, fret>>

\* v.setUndefined(); v.isNaN()
SetUndefined ==
    /\ op = "init"
    /\ \E v \in VSet :
        /\ vec' = v
        /\ vret' = setUndefined(v)
        /\ bret' = Vector_isNaN(setUndefined(v))
    /\ op' = "setUndefined"
    /\ UNCHANGED <<this, rhs, third, mat, angles, qret, qalt, mret, run>>
    /\ UNCHANGED <<vec2, vec3, scalar, flag, mthis, fret>>

\* a.dot(b)
Dot ==
    /\ op = "init"
    /\ \E a \in VDotSet :
        \E b \in VSet \cup {a} :
            /\ vec' = a
            /\ vec2' = b
            /\ fret' = dot(a, b)
    /\ op' = "dot"
    /\ UNCHANGED <<this, rhs, third, mat, angles, qret, qalt, mret, vret, run>>
    /\ UNCHANGED <<vec3, scalar, flag, mthis, bret>>

\* a.normSqr()
NormSqr ==
    /\ op = "init"
    /\ \E a \in VDotSet :
        /\ vec' = a
        /\ fret' = Vector_normSqr(a)
    /\ op' = "normSqr"
    /\ UNCHANGED <<this, rhs, third, mat, angles, qret, qalt, mret, vret, run>>
    /\ UNCHANGED <<vec2, vec3, scalar, flag, mthis, bret>>

\* m.fromVectors(vx, vy, vz, row) with the rows or the columns of a matrix
FromVectors ==
    /\ op = "init"
    /\ \E m \in MSet, prior \in MPriorSet, r \in BOOLEAN :
        LET vx == IF r THEN row(m, 0) ELSE col(m, 0)
            vy == IF r THEN row(m, 1) ELSE col(m, 1)
            vz == IF r THEN row(m, 2) ELSE col(m, 2)
        IN  /\ mat' = m
            /\ mthis' = prior
            /\ flag' = r
            /\ vec' = vx
            /\ vec2' = vy
            /\ vec3' = vz
            /\ mret' = fromVectors(prior, vx, vy, vz, r)
    /\ op' = "fromVectors"
    /\ UNCHANGED <<this, rhs, third, angles, qret, qalt, vret, run>>
    /\ UNCHANGED <<scalar, fret, bret>>

\* f * v
ScalarTimesVector ==
    /\ op = "init"
    /\ \E f \in FSet, v \in VSet :
        /\ scalar' = f
        /\ vec' = v
        /\ vret' = scalar_mulVector(f, v)
    /\ op' = "scalarMul"
    /\ UNCHANGED <<this, rhs, third, mat, angles, qret, qalt, mret, run>>
    /\ UNCHANGED <<vec2, vec3, flag, mthis, fret, bret>>

\* f + v
ScalarPlusVector ==
    /\ op = "init"
    /\ \E f \in FSet, v \in VSet :
        /\ scalar' = f
        /\ vec' = v
        /\ vret' = scalar_addVector(f, v)
    /\ op' = "scalarAdd"
    /\ UNCHANGED <<this, rhs, third, mat, angles, qret, qalt, mret, run>>
    /\ UNCHANGED <<vec2, vec3, flag, mthis, fret, bret>>

\* f - v
ScalarMinusVector ==
    /\ op = "init"
    /\ \E f \in FSet, v \in VSet :
        /\ scalar' = f
        /\ vec' = v
        /\ vret' = scalar_subVector(f, v)
    /\ op' = "scalarSub"
    /\ UNCHANGED <<this, rhs, third, mat, angles, qret, qalt, mret, run>>
    /\ UNCHANGED <<vec2, vec3, flag, mthis, fret, bret>>

\* m.toQuaternion() and p.fromMatrix(m) on the same matrix
BothRoutes ==
    /\ op = "init"
    /\ \E a \in PriorSet, m \in MSet :
        /\ this' = a
        /\ mat' = m
        /\ run' = [x \in DOMAIN NoRun |-> fromMatrixRun(a, m)[x]]
        /\ qret' = toQuaternion(m)
        /\ qalt' = fromMatrix(a, m)
    /\ op' = "bothRoutes"
    /\ UNCHANGED <<rhs, third, vec, angles, mret, vret>>
    /\ UNCHANGED extra

\* a.fromMatrix(m) and b.fromMatrix(m) on two quaternions that differ
FromMatrixPair ==
    /\ op = "init"
    /\ \E a \in PriorSet, b \in PriorSet, m \in MSet :
        /\ a # b
        /\ this' = a
        /\ rhs' = b
        /\ mat' = m
        /\ run' = [x \in DOMAIN NoRun |-> fromMatrixRun(a, m)[x]]
        /\ qret' = fromMatrix(a, m)
        /\ qalt' = fromMatrix(b, m)
    /\ op' = "fromMatrixPair"
    /\ UNCHANGED <<third, vec, angles, mret, vret>>
    /\ UNCHANGED extra

Next ==
    \/ MultiplyVector
    \/ VectorMultiply
    \/ IsNaN
    \/ SetNaN
    \/ SetUndefined
    \/ Dot
    \/ NormSqr
    \/ FromVectors
    \/ ScalarTimesVector
    \/ ScalarPlusVector
    \/ ScalarMinusVector
    \/ BothRoutes
    \/ FromMatrixPair
    \/ Multiply
    \/ MultiplyChain
    \/ MultiplyConjugate
    \/ ToRotationMatrix
    \/ FromMatrix
    \/ RoundTrip
    \/ ToQuaternion
    \/ FromAngles
    \/ Rotate

Spec == Init /\ [][Next]_vars


\* ----------------------------------------------------------------- claims
\* Tolerance of the approximate comparisons: 1/32.
Tol == Scale \div 32

Close(a, b) == IsFinite(a) /\ IsFinite(b) /\ Abs(a.v - b.v) <= Tol

CloseQ(p, q) ==
    Close(p.w, q.w) /\ Close(p.x, q.x) /\ Close(p.y, q.y) /\ Close(p.z, q.z)

CloseV(u, v) == Close(u.x, v.x) /\ Close(u.y, v.y) /\ Close(u.z, v.z)

NegQ(q) == Quaternion(NegF(q.w), NegF(q.x), NegF(q.y), NegF(q.z))

\* The component of the vector part at position n: x, y, z for 0, 1, 2.
VecAt(q, n) == CASE n = 0 -> q.x [] n = 1 -> q.y [] OTHER -> q.z

Diag(a, b, c) == Matrix3x3(a, Zero, Zero, Zero, b, Zero, Zero, Zero, c)

\* The rotation matrix of q = (w, x, y, z) by the standard formula.
RotationFormula(q) ==
    LET Dbl(a) == MulF(Two, a)
    IN  Matrix3x3(
            SubF(One, Dbl(AddF(sqr(q.y), sqr(q.z)))),
            Dbl(SubF(MulF(q.x, q.y), MulF(q.w, q.z))),
            Dbl(AddF(MulF(q.x, q.z), MulF(q.w, q.y))),
            Dbl(AddF(MulF(q.x, q.y), MulF(q.w, q.z))),
            SubF(One, Dbl(AddF(sqr(q.x), sqr(q.z)))),
            Dbl(SubF(MulF(q.y, q.z), MulF(q.w, q.x))),
            Dbl(SubF(MulF(q.x, q.z), MulF(q.w, q.y))),
            Dbl(AddF(MulF(q.y, q.z), MulF(q.w, q.x))),
            SubF(One, Dbl(AddF(sqr(q.x), sqr(q.y)))))

\* C1: for every quaternion q = (w, x, y, z), q.toRotationMatrix() is the
\* matrix with diagonal 1-2(y^2+z^2), 1-2(x^2+z^2), 1-2(x^2+y^2) and
\* off-diagonal entries 2(xy-wz), 2(xz+wy), 2(xy+wz), 2(yz-wx), 2(xz-wy),
\* 2(yz+wx); q = (0,1,0,0) gives diag(1,-1,-1).
C1_RotationMatrixFormula ==
    op = "toRotationMatrix" => mret = RotationFormula(this)

\* C2: in the trace <= 0 branch of fromMatrix, with i the selected index,
\* j = (i+1)%3, k = (j+1)%3 and t the square root of
\* coeff(i,i)-coeff(j,j)-coeff(k,k)+1, the vector-part component at position
\* i ends up 0.5*t, w ends up (coeff(k,j)-coeff(j,k))*(0.5/t), and the
\* components at positions j and k end up (coeff(j,i)+coeff(i,j))*(0.5/t) and
\* (coeff(k,i)+coeff(i,k))*(0.5/t).
C2_DiagonalBranchComponents ==
    (op = "fromMatrix" /\ run.branch = "diag") =>
        LET i == run.i
            j == run.j
            k == run.k
            s == DivF(Half, run.t)
        IN  /\ VecAt(qret, i) = MulF(Half, run.t)
            /\ qret.w = MulF(SubF(coeff(mat, k, j), coeff(mat, j, k)), s)
            /\ VecAt(qret, j) = MulF(AddF(coeff(mat, j, i), coeff(mat, i, j)), s)
            /\ VecAt(qret, k) = MulF(AddF(coeff(mat, k, i), coeff(mat, i, k)), s)

\* C3: on a default-constructed quaternion, fromMatrix of the half turns
\* diag(1,-1,-1), diag(-1,1,-1), diag(-1,-1,1) yields +-(0,1,0,0),
\* +-(0,0,1,0), +-(0,0,0,1).
C3_HalfTurnAxis ==
    (op = "fromMatrix" /\ this = QuaternionDefault) =>
        LET Either(q) == qret = q \/ qret = NegQ(q)
        IN  /\ mat = Diag(One, MinusOne, MinusOne) =>
                Either(Quaternion(Zero, One, Zero, Zero))
            /\ mat = Diag(MinusOne, One, MinusOne) =>
                Either(Quaternion(Zero, Zero, One, Zero))
            /\ mat = Diag(MinusOne, MinusOne, One) =>
                Either(Quaternion(Zero, Zero, Zero, One))

\* C4: for every unit quaternion q with w >= 0, fromMatrix applied to
\* q.toRotationMatrix() reproduces q component by component, within the
\* tolerance and up to a sign flip of all four components.
C4_RoundTrip ==
    (op = "roundTrip" /\ ~GtF(Zero, rhs.w)) =>
        (CloseQ(qret, rhs) \/ CloseQ(qret, NegQ(rhs)))

\* C5: fromAngles(0,0,pi/2) converted with toRotationMatrix() and multiplied
\* with the vector (1,0,0) yields approximately (0,1,0).
C5_QuarterTurnAboutZ ==
    ( /\ op = "rotate"
      /\ angles = [roll |-> Zero, pitch |-> Zero, yaw |-> HalfPi]
      /\ vec = Vector(One, Zero, Zero) ) =>
        CloseV(vret, Vector(Zero, One, Zero))


IdentityQ == Quaternion(One, Zero, Zero, Zero)

\* C6: the identity rotation is preserved by every conversion:
\* identity().toQuaternion() and fromMatrix(identity()), on any quaternion,
\* give (1,0,0,0), fromAngles(0,0,0) gives (1,0,0,0), and
\* Quaternion().toRotationMatrix() gives identity().
C6_IdentityPreserved ==
    /\ (op = "toQuaternion" /\ mat = identity) => qret = IdentityQ
    /\ (op = "fromMatrix" /\ mat = identity) => qret = IdentityQ
    /\ ( /\ op = "fromAngles"
         /\ angles = [roll |-> Zero, pitch |-> Zero, yaw |-> Zero] ) =>
            qret = IdentityQ
    /\ (op = "toRotationMatrix" /\ this = QuaternionDefault) => mret = identity

\* fromMatrix(identity()) was called on a quaternion none of whose
\* components is that of the identity, and left the identity.
C6_Witness ==
    /\ op = "fromMatrix"
    /\ mat = identity
    /\ this = Quaternion(Half, MinusOne, One, MinusHalf)
    /\ run.branch = "trace"
    /\ qret = IdentityQ

GeF(a, b) == GtF(a, b) \/ EqF(a, b)

\* The first index whose diagonal entry is the largest of the three.
FirstLargest(m) ==
    CHOOSE n \in 0 .. 2 :
        /\ \A o \in 0 .. 2 : GeF(coeff(m, n, n), coeff(m, o, o))
        /\ \A o \in 0 .. (n - 1) : GtF(coeff(m, n, n), coeff(m, o, o))

HamiltonFormula(q1, q2) ==
    LET v1 == axis(q1)
        v2 == axis(q2)
        v == Vector_add(Vector_add(Vector_mulScalar(v2, q1.w),
                                   Vector_mulScalar(v1, q2.w)), cross(v1, v2))
        s == SubF(MulF(q1.w, q2.w),
                  AddF(AddF(MulF(q1.x, q2.x), MulF(q1.y, q2.y)),
                       MulF(q1.z, q2.z)))
    IN  Quaternion(s, v.x, v.y, v.z)

\* C8: q1 * q2 is the Hamilton product, scalar part
\* w1*w2 - (x1*x2 + y1*y2 + z1*z2) with all three components (not
\* Vector::dot), vector part w1*v2 + w2*v1 + cross(v1, v2); there are q1, q2
\* with q1*q2 # q2*q1.
C8_HamiltonProduct ==
    /\ op = "mul" => qret = HamiltonFormula(this, rhs)
    /\ \E a \in QGen, b \in QGen : Quaternion_mul(a, b) # Quaternion_mul(b, a)

\* A product of two quaternions with no zero component that do not commute,
\* and whose scalar part is not the one Vector::dot would give.
C8_Witness ==
    /\ op = "mul"
    /\ \A c \in {this.w, this.x, this.y, this.z, rhs.w, rhs.x, rhs.y, rhs.z} :
            c # Zero
    /\ qret # Quaternion_mul(rhs, this)
    /\ qret.w # SubF(MulF(this.w, rhs.w), dot(axis(this), axis(rhs)))

\* C9: quaternion multiplication is associative: (q1*q2)*q3 = q1*(q2*q3),
\* exactly where the arithmetic is exact.
C9_Associative == op = "mulChain" => qret = qalt

\* A chain of three quaternions no two of which commute.
C9_Witness ==
    /\ op = "mulChain"
    /\ Quaternion_mul(this, rhs) # Quaternion_mul(rhs, this)
    /\ Quaternion_mul(rhs, third) # Quaternion_mul(third, rhs)
    /\ Quaternion_mul(this, third) # Quaternion_mul(third, this)
    /\ qret = qalt
    /\ qret.w # Zero /\ qret.x # Zero /\ qret.y # Zero /\ qret.z # Zero

\* C10: conjugate() negates x, y, z and keeps w; q * q.conjugate() is
\* (q.normSqr(), 0, 0, 0), the identity (1,0,0,0) for every unit q.
C10_ConjugateProduct ==
    op = "mulConjugate" =>
        /\ rhs = Quaternion(this.w, NegF(this.x), NegF(this.y), NegF(this.z))
        /\ qret = Quaternion(Quaternion_normSqr(this), Zero, Zero, Zero)
        /\ Quaternion_normSqr(this) = One => qret = IdentityQ

\* A unit quaternion with no zero component times its conjugate.
C10_Witness ==
    /\ op = "mulConjugate"
    /\ this = Quaternion(Half, MinusHalf, Half, MinusHalf)
    /\ Quaternion_normSqr(this) = One
    /\ qret = IdentityQ


\* The vector v as a quaternion with scalar part 0.
Pure(v) == Quaternion(Zero, v.x, v.y, v.z)

\* C11: for every quaternion q and vector v, q * v is exactly the Hamilton
\* product q * Quaternion(0, v.x, v.y, v.z), q the left operand.
C11_VectorAsPureQuaternion ==
    op = "mulVector" => qret = Quaternion_mul(this, Pure(vec))

\* A quaternion and a vector with no zero component whose product depends
\* on the order of the operands.
C11_Witness ==
    /\ op = "mulVector"
    /\ this.w # Zero /\ this.x # Zero /\ this.y # Zero /\ this.z # Zero
    /\ vec = Vector(Half, MinusOne, One)
    /\ qret = Quaternion_mul(this, Pure(vec))
    /\ qret # Quaternion_mul(Pure(vec), this)

\* C12: for every vector v and quaternion q, v * q (the vector on the left)
\* equals Quaternion(0, v.x, v.y, v.z) * q, the vector the left operand.
C12_VectorOnTheLeft ==
    op = "vectorMul" => qret = Quaternion_mul(Pure(vec), rhs)

\* C13: isNaN() returns true whenever at least one component is NaN, in
\* particular right after setNaN() or setUndefined(), and false when no
\* component is NaN.
C13_IsNaNDetects ==
    op \in {"isNaN", "setNaN", "setUndefined"} =>
        ( bret <=>
            (IsNaNValue(vret.x) \/ IsNaNValue(vret.y) \/ IsNaNValue(vret.z)) )

C15_FromVectorsInverse ==
    op = "fromVectors" =>
        /\ mret = mat
        /\ flag =>
            row(mret, 0) = vec /\ row(mret, 1) = vec2 /\ row(mret, 2) = vec3
        /\ ~flag =>
            col(mret, 0) = vec /\ col(mret, 1) = vec2 /\ col(mret, 2) = vec3

\* The columns of a matrix that is not symmetric, written over the identity.
C15_Witness ==
    /\ op = "fromVectors"
    /\ ~flag
    /\ mthis = identity
    /\ coeff(mat, 0, 1) # coeff(mat, 1, 0)
    /\ coeff(mat, 0, 2) # coeff(mat, 2, 0)
    /\ coeff(mat, 1, 2) # coeff(mat, 2, 1)
    /\ vec = col(mat, 0)
    /\ mret = mat

\* C16: f - v, the scalar on the left, subtracts in the written order: it
\* is (f - v.x, f - v.y, f - v.z), so 0 - v is -v.
C16_ScalarMinusVector ==
    op = "scalarSub" =>
        /\ vret = Vector(SubF(scalar, vec.x), SubF(scalar, vec.y),
                         SubF(scalar, vec.z))
        /\ scalar = Zero => vret = Vector(NegF(vec.x), NegF(vec.y), NegF(vec.z))

\* m is a rotation matrix: its rows are orthonormal and its determinant is 1.
IsRotation(m) ==
    /\ \A r1 \in 0 .. 2, r2 \in 0 .. 2 :
        AddF(AddF(MulF(coeff(m, r1, 0), coeff(m, r2, 0)),
                  MulF(coeff(m, r1, 1), coeff(m, r2, 1))),
             MulF(coeff(m, r1, 2), coeff(m, r2, 2)))
            = IF r1 = r2 THEN One ELSE Zero
    /\ det(m) = One

\* The sign of a finite float: -1, 0 or 1.
SgnF(a) == IF a.v > 0 THEN 1 ELSE IF a.v < 0 THEN -1 ELSE 0

\* C17: for every rotation matrix M with trace > 0, M.toQuaternion() and
\* fromMatrix(M) give the same quaternion, x having the sign of
\* coeff(2,1)-coeff(1,2), y of coeff(0,2)-coeff(2,0), z of
\* coeff(1,0)-coeff(0,1) in both.
C17_SameSignConvention ==
    (op = "bothRoutes" /\ IsRotation(mat) /\ GtF(trace(mat), Zero)) =>
        /\ CloseQ(qret, qalt)
        /\ \A q \in {qret, qalt} :
            /\ SgnF(q.x) = SgnF(SubF(coeff(mat, 2, 1), coeff(mat, 1, 2)))
            /\ SgnF(q.y) = SgnF(SubF(coeff(mat, 0, 2), coeff(mat, 2, 0)))
            /\ SgnF(q.z) = SgnF(SubF(coeff(mat, 1, 0), coeff(mat, 0, 1)))

\* C18: fromMatrix reassigns the whole quaternion: after a.fromMatrix(M) and
\* b.fromMatrix(M) on two quaternions with different values, all four
\* components of a and b are equal.
C18_NoComponentKept == op = "fromMatrixPair" => qret = qalt

====
